---- MODULE Spec2Model ----
(***************************************************************************)
(* A model of fastlib/u/garryb/nbr/rpc.h: the blocking client call (Rpc),  *)
(* the service dispatcher (RemoteObjectBackend), the tree reduction        *)
(* (ReduceChannel) and the helpers built on them.                          *)
(*                                                                         *)
(* Processes are numbered 0..N-1.  In a reduction process 0 is the root of *)
(* the spanning tree.  In the request/response part process 0 is the       *)
(* server and the others are clients.                                      *)
(***************************************************************************)
EXTENDS Integers, Sequences, FiniteSets, Bags, TLC

VARIABLES
  topo,        \* the spanning tree: [parent |-> ..., kids |-> ...]
  reductor,    \* which TReductor the reduction runs with
  contrib,     \* contrib[n]: the value process n passes to rpc::Reduce
  pc,          \* pc[n]: position of n's caller thread inside ReduceChannel::Doit
  received,    \* received[n][i]: ReduceTransaction::received_ (<<>> is NULL)
  n_received,  \* n_received[n]: ReduceTransaction::n_received_
  data,        \* data[n]: *ReduceTransaction::data_, the caller's value
  cond,        \* cond[n]: ReduceTransaction::cond_ has been signalled
  freed,       \* freed[n][i]: how often received_[i] was deleted
  arrival,     \* arrival[n]: child indices in the order HandleMessage stored them
  fin,         \* fin[n]: the statement of Finalize the dispatch thread is at (0: none)
  registry,    \* registry[n]: channel numbers registered with rpc::Register at n
  aborted,     \* aborted[n]: process n ran into FATAL
  net,         \* messages handed to Send and not yet delivered
  sent,        \* bag of every message ever handed to Send
  faults,      \* messages the transport delivered that no process sent
  handler,     \* the server's override of RemoteObjectBackend::HandleRequest
  cpc,         \* cpc[c]: position of client c's caller thread in Rpc::Request
  response,    \* response[c]: RpcRequestTransaction::response (<<>> is NULL)
  mutex,       \* mutex[c]: holder of RpcRequestTransaction::mutex
  hm,          \* hm[c]: the message the dispatch thread holds inside HandleMessage
  bound,       \* bound[c]: c's transaction is attached to its channel
  ncalls,      \* ncalls[c]: how many calls of Rpc::Request c has started
  requests,    \* requests[c]: the request of c's latest call
  returned,    \* returned[c]: what c's latest call returned (<<>>: not yet)
  produced     \* produced[c]: what HandleRequest produced for c's latest request

rvars == <<topo, reductor, contrib, pc, received, n_received, data, cond,
           freed, arrival, fin>>

tvars == <<registry, aborted, net, sent, faults>>

cvars == <<handler, cpc, response, mutex, hm, bound, ncalls, requests, returned,
           produced>>

vars == <<rvars, tvars, cvars>>

----------------------------------------------------------------------------
(* Bounds *)

MaxNodes == 3
MaxFaults == 1
MaxClients == 2
MaxCalls == 2

(* The channel number the collective runs on (the channel_num argument). *)
channel_num == 1

(* The channel number of the request/response service (the channel        *)
(* argument of Rpc and of RemoteObjectBackend::Register).                  *)
channel == 2

Values == {3, 4, 10}

Reductors == {"sub", "cat", "noop"}

----------------------------------------------------------------------------
(* Topology service: rpc::n_children, rpc::child, rpc::parent, rpc::is_root *)

RECURSIVE SortAsc(_)
SortAsc(S) ==
  IF S = {} THEN <<>>
  ELSE LET m == CHOOSE x \in S : \A y \in S : x <= y
       IN <<m>> \o SortAsc(S \ {m})

Reverse(s) == [i \in 1..Len(s) |-> s[Len(s) + 1 - i]]

ParentFns(n) == {p \in [1..(n-1) -> 0..(n-1)] : \A i \in 1..(n-1) : p[i] < i}

KidsOf(n, p, rev) ==
  [x \in 0..(n-1) |->
     LET asc == SortAsc({i \in 1..(n-1) : p[i] = x})
     IN IF rev THEN Reverse(asc) ELSE asc]

TopologiesOf(n) ==
  {[parent |-> p, kids |-> KidsOf(n, p, rev)] : p \in ParentFns(n), rev \in BOOLEAN}

Topologies == UNION {TopologiesOf(n) : n \in 1..MaxNodes}

Nodes == DOMAIN topo.kids

n_children(n) == Len(topo.kids[n])

child(n, i) == topo.kids[n][i + 1]

is_root(n) == n = 0

parent(n) == topo.parent[n]

RECURSIVE Subtree(_)
Subtree(n) ==
  {n} \cup UNION {Subtree(topo.kids[n][j]) : j \in 1..Len(topo.kids[n])}

----------------------------------------------------------------------------
(* Serialization: ot::PointerFreeze / ot::PointerThaw *)

Freeze(v) == [frozen |-> v]

Thaw(b) == b.frozen

(* CreateMessage(peer, size) + PointerFreeze: a message of process `from`  *)
(* addressed to `to` on channel ch.  On the receiving side peer() is the   *)
(* sender.                                                                 *)
CreateMessage(ch, from, to, v) ==
  [channel |-> ch, from |-> from, to |-> to, data |-> Freeze(v)]

----------------------------------------------------------------------------
(* The reductor: Reduce(const TData& right_hand, TData* left_hand) const   *)

Reduce(right_hand, left_hand) ==
  CASE reductor = "sub"  -> right_hand - left_hand
    [] reductor = "cat"  -> left_hand \o right_hand
    [] reductor = "noop" -> left_hand

(* One contribution per process, of the reductor's data type. *)
ContributionsFor(r, S) ==
  CASE r = "sub"  -> [S -> Values]
    [] r = "cat"  -> {[n \in S |-> <<n>>]}
    [] r = "noop" -> {[n \in S |-> 0]}

----------------------------------------------------------------------------
(* ReduceChannel::ReduceTransaction *)

Range(f) == {f[x] : x \in DOMAIN f}

(* A reduction that folds the children in the order their messages came.   *)
RECURSIVE ReduceInOrder(_, _, _, _)
ReduceInOrder(order, slots, acc, j) ==
  IF j > Len(order) THEN acc
  ELSE ReduceInOrder(order, slots, Reduce(Thaw(slots[order[j]][1].data), acc), j + 1)

ReduceByArrival(n, slots, acc, i) ==
  ReduceInOrder(arrival[n] \o SortAsc((0..(n_children(n) - 1)) \ Range(arrival[n])),
                slots, acc, i + 1)

(* A reduction loop that folds every child's message in twice. *)
RECURSIVE ReduceTwice(_, _, _, _)
ReduceTwice(n, slots, acc, i) ==
  IF i >= n_children(n) THEN acc
  ELSE ReduceTwice(n, slots,
                   Reduce(Thaw(slots[i][1].data), Reduce(Thaw(slots[i][1].data), acc)),
                   i + 1)

(* CheckStatus_, lines 193-197: thaw and reduce the children's messages in *)
(* increasing index order, starting at index i.                           *)
RECURSIVE ReduceFrom(_, _, _, _)
ReduceFrom(n, slots, acc, i) ==
  IF i >= n_children(n) THEN acc
  ELSE ReduceFrom(n, slots, Reduce(Thaw(slots[i][1].data), acc), i + 1)

ReduceAll(n, slots, acc) == ReduceFrom(n, slots, acc, 0)

(* A completion test that forgets the node without children. *)
AllReceivedNonEmpty(n, nrec) == nrec > 0 /\ nrec = n_children(n)

(* CheckStatus_, line 192: all children have reported. *)
AllReceived(n, nrec) == nrec = n_children(n)

(* An upward message that even the root sends, to itself. *)
UpwardFromRoot(n, v) ==
  {CreateMessage(channel_num, n, IF is_root(n) THEN n ELSE parent(n), v)}

(* An upward message that carries the node's own contribution only. *)
UpwardUncombined(n, v) ==
  IF ~is_root(n) THEN {CreateMessage(channel_num, n, parent(n), contrib[n])} ELSE {}

(* CheckStatus_, lines 198-204: the message to the parent, if any. *)
UpwardMessages(n, v) ==
  IF ~is_root(n) THEN {CreateMessage(channel_num, n, parent(n), v)} ELSE {}

(* A Finalize step that never signals the caller. *)
CondNeverDone(n) == cond

(* CheckStatus_, line 207: cond_.Done() *)
CondDone(n) == [cond EXCEPT ![n] = TRUE]

(* A Finalize step that leaves the stored child messages allocated. *)
FreeNone(n) == freed

(* CheckStatus_, line 196: delete received_[i], for every child slot. *)
FreeAll(n) == [freed EXCEPT ![n] = [i \in DOMAIN @ |-> @[i] + 1]]

(* A Finalize step that leaves the channel in the registry. *)
UnregisterSkipped(n) == registry

(* CheckStatus_, line 205: rpc::Unregister(channel()) *)
Unregister(n) == [registry EXCEPT ![n] = @ \ {channel_num}]

(* CheckStatus_ as called with n_received_ = nrec and received_ = slots;   *)
(* netIn is the network before the calls to Send.                          *)
CheckStatus_(n, nrec, slots, netIn) ==
  IF AllReceived(n, nrec)
  THEN LET v == ReduceAll(n, slots, data[n])
           up == UpwardMessages(n, v)
       IN /\ data' = [data EXCEPT ![n] = v]
          /\ freed' = FreeAll(n)
          /\ net' = netIn \cup up
          /\ sent' = sent (+) SetToBag(up)
          /\ registry' = Unregister(n)
          /\ cond' = CondDone(n)
  ELSE /\ net' = netIn
       /\ UNCHANGED <<data, freed, sent, registry, cond>>

(* ReduceChannel::Doit entering ReduceChannel::Init:                       *)
(* ReduceTransaction::Init, lines 215-225.                                 *)
TransactionInit(n) ==
  /\ pc[n] = "idle"
  /\ ~aborted[n]
  /\ received' = [received EXCEPT ![n] = [i \in 0..(n_children(n) - 1) |-> <<>>]]
  /\ n_received' = [n_received EXCEPT ![n] = 0]
  /\ CheckStatus_(n, 0, received'[n], net)
  /\ pc' = [pc EXCEPT ![n] = "register"]
  /\ UNCHANGED <<topo, reductor, contrib, arrival, fin, aborted, faults, cvars>>

(* A registration that does not wait for the transaction's Init. *)
CanRegisterEarly(n) == pc[n] \in {"idle", "register"}

(* ReduceChannel::Init, lines 266-267: the registration follows the        *)
(* completed transaction_.Init.                                            *)
CanRegister(n) == pc[n] = "register"

(* ReduceChannel::Init, line 267: rpc::Register(channel_num, this) *)
Register(n) ==
  /\ CanRegister(n)
  /\ ~aborted[n]
  /\ registry' = [registry EXCEPT ![n] = @ \cup {channel_num}]
  /\ pc' = [pc EXCEPT ![n] = "wait"]
  /\ UNCHANGED <<topo, reductor, contrib, received, n_received, data, cond,
                 freed, arrival, fin, aborted, net, sent, faults, cvars>>

(* A Wait that does not block. *)
WaitNoBlock(n) == TRUE

(* ReduceTransaction::Wait returns once cond_ is done. *)
WaitReady(n) == cond[n]

(* ReduceChannel::Wait, lines 270-272, and the return of Doit / rpc::Reduce *)
Wait(n) ==
  /\ pc[n] = "wait"
  /\ ~aborted[n]
  /\ WaitReady(n)
  /\ pc' = [pc EXCEPT ![n] = "returned"]
  /\ UNCHANGED <<topo, reductor, contrib, received, n_received, data, cond,
                 freed, arrival, fin, registry, aborted, net, sent, faults, cvars>>

(* A search loop that stops one step early and leaves i = 0 behind. *)
FindChildOffByOne(n, peer) ==
  LET hits == {i \in 0..(n_children(n) - 1) : child(n, i) = peer}
  IN IF hits = {} THEN (IF n_children(n) > 0 THEN 0 ELSE -1)
     ELSE CHOOSE i \in hits : \A j \in hits : j <= i

(* HandleMessage, lines 232-237: the index of the child the message came   *)
(* from, -1 when the sender is no child.                                   *)
FindChild(n, peer) ==
  LET hits == {i \in 0..(n_children(n) - 1) : child(n, i) = peer}
  IN IF hits = {} THEN -1 ELSE CHOOSE i \in hits : \A j \in hits : j <= i

(* A store that always uses the first slot. *)
StoreInFirst(n, i, m) == [received EXCEPT ![n][0] = <<m>>]

(* HandleMessage, line 249: received_[i] = message *)
StoreMessage(n, i, m) == [received EXCEPT ![n][i] = <<m>>]

(* HandleMessage, lines 238-248: the two FATAL conditions. *)
IsFatal(n, i) == i < 0 \/ received[n][i] # <<>>

(* ReduceTransaction::HandleMessage, lines 231-255, for a message m;       *)
(* netIn is the network without m.                                         *)
HandleMessage(n, m, netIn) ==
  LET i == FindChild(n, m.from)
  IN IF IsFatal(n, i)
     THEN /\ aborted' = [aborted EXCEPT ![n] = TRUE]
          /\ net' = netIn
          /\ UNCHANGED <<received, n_received, data, cond, freed, arrival,
                         registry, sent>>
     ELSE /\ received' = StoreMessage(n, i, m)
          /\ arrival' = [arrival EXCEPT ![n] = Append(@, i)]
          /\ n_received' = [n_received EXCEPT ![n] = @ + 1]
          /\ CheckStatus_(n, n_received'[n], received'[n], netIn)
          /\ UNCHANGED aborted

----------------------------------------------------------------------------
(* Transport: a message is handed to the channel registered under its      *)
(* channel number at the addressee; it waits while none is registered.     *)

Deliverable(n, m) ==
  /\ m \in net
  /\ m.to = n
  /\ m.channel \in registry[n]
  /\ ~aborted[n]

Deliver(n, m) ==
  /\ Deliverable(n, m)
  /\ m.channel = channel_num
  /\ HandleMessage(n, m, net \ {m})
  /\ UNCHANGED <<topo, reductor, contrib, pc, fin, faults, cvars>>

(* A faulty transport: a message nobody sent (from a stranger, or a second *)
(* one from a child) reaches a reduction in progress.                      *)
Misdeliver(n, p) ==
  /\ faults < MaxFaults
  /\ pc[n] = "wait"
  /\ channel_num \in registry[n]
  /\ ~aborted[n]
  /\ HandleMessage(n, CreateMessage(channel_num, p, n, contrib[n]), net)
  /\ faults' = faults + 1
  /\ UNCHANGED <<topo, reductor, contrib, pc, fin, cvars>>

----------------------------------------------------------------------------
(* Finalize statement by statement: the dispatch thread runs the tail of   *)
(* CheckStatus_ while the caller thread may run between its statements.    *)

(* A Finalize that signals before it sends and unregisters. *)
FinalizeSignalFirst == <<"signal", "send", "unregister">>

(* CheckStatus_, lines 198-207, after the reduce loop: Send to the parent, *)
(* rpc::Unregister, cond_.Done(), in this order.                           *)
FinalizeOrder == <<"send", "unregister", "signal">>

(* ReduceTransaction::HandleMessage, lines 231-255, up to and including    *)
(* the reduce loop of CheckStatus_ (lines 192-197).                        *)
FineHandleMessage(n, m) ==
  LET i == FindChild(n, m.from)
  IN IF IsFatal(n, i)
     THEN /\ aborted' = [aborted EXCEPT ![n] = TRUE]
          /\ UNCHANGED <<received, n_received, data, freed, arrival, fin>>
     ELSE /\ received' = StoreMessage(n, i, m)
          /\ arrival' = [arrival EXCEPT ![n] = Append(@, i)]
          /\ n_received' = [n_received EXCEPT ![n] = @ + 1]
          /\ IF AllReceived(n, n_received'[n])
             THEN /\ data' = [data EXCEPT ![n] = ReduceAll(n, received'[n], data[n])]
                  /\ freed' = FreeAll(n)
                  /\ fin' = [fin EXCEPT ![n] = 1]
             ELSE UNCHANGED <<data, freed, fin>>
          /\ UNCHANGED aborted

(* The dispatch thread hands over one message at a time. *)
FineDeliver(n, m) ==
  /\ Deliverable(n, m)
  /\ m.channel = channel_num
  /\ fin[n] = 0
  /\ net' = net \ {m}
  /\ FineHandleMessage(n, m)
  /\ UNCHANGED <<topo, reductor, contrib, pc, cond, registry, sent, faults, cvars>>

(* The next statement of lines 198-207 at process n. *)
FinalizeStep(n) ==
  /\ fin[n] > 0
  /\ ~aborted[n]
  /\ LET step == FinalizeOrder[fin[n]]
         up == IF step = "send" THEN UpwardMessages(n, data[n]) ELSE {}
     IN /\ net' = net \cup up
        /\ sent' = sent (+) SetToBag(up)
        /\ registry' = IF step = "unregister" THEN Unregister(n) ELSE registry
        /\ cond' = IF step = "signal" THEN CondDone(n) ELSE cond
  /\ fin' = [fin EXCEPT ![n] = IF @ = Len(FinalizeOrder) THEN 0 ELSE @ + 1]
  /\ UNCHANGED <<topo, reductor, contrib, pc, received, n_received, data, freed,
                 arrival, aborted, faults, cvars>>

----------------------------------------------------------------------------

----------------------------------------------------------------------------
(* Request/response: Rpc<ResponseObject> and RemoteObjectBackend          *)

Server == 0

Clients == 1..MaxClients

Peers == {Server} \cup Clients

Requests == {1, 2}

Responses == {5, 6}

(* DataGetterBackend<T>::HandleRequest, lines 308-312: whatever the        *)
(* request, the response is a copy of the snapshot *data_.                *)
DataGetterHandler(d) == [r \in Requests |-> d]

(* The overrides of RemoteObjectBackend::HandleRequest: any function from  *)
(* requests to responses (DataGetterBackend is a constant one).  The base  *)
(* class's own HandleRequest is a trap and is never registered.            *)
Handlers == {DataGetterHandler(d) : d \in Responses} \cup {[r \in Requests |-> r + 4]}

HandleRequest(request) == handler[request]

(* A handler that replaces the backend's data by the other value. *)
BackendSwapped(request) == [r \in Requests |-> 11 - handler[r]]

(* HandleRequest takes the request and the response only; the backend's   *)
(* own data (const T *data_, line 298) is the same after the call.         *)
BackendAfterRequest(request) == handler

(* A reply sent on the channel of the collective. *)
ReplyOnReduceChannel(request) == channel_num

(* GetTransaction, line 148: the reply's transaction is bound to           *)
(* message->channel().                                                     *)
ReplyChannel(request) == request.channel

(* A reply addressed to one fixed client. *)
ReplyToFirstClient(request) == 1

(* RemoteObjectTransaction::HandleMessage, line 165: request->peer() *)
ReplyPeer(request) == request.from

(* RemoteObjectBackend::GetTransaction and                                 *)
(* RemoteObjectTransaction::HandleMessage, lines 146-171: thaw the         *)
(* request, run the handler, freeze and send the response.                 *)
ServerHandle(m) ==
  /\ Deliverable(Server, m)
  /\ m.channel = channel
  /\ LET real_request == Thaw(m.data)
         real_response == HandleRequest(real_request)
         reply == CreateMessage(ReplyChannel(m), Server, ReplyPeer(m), real_response)
     IN /\ net' = (net \ {m}) \cup {reply}
        /\ sent' = sent (+) SetToBag({reply})
        /\ produced' = [produced EXCEPT ![m.from] =
                           <<[request |-> real_request, response |-> real_response]>>]
        /\ handler' = BackendAfterRequest(real_request)
  /\ UNCHANGED <<rvars, registry, aborted, faults, cpc, response,
                 mutex, hm, bound, ncalls, requests, returned>>

RECURSIVE SumOver(_, _)
SumOver(f, S) ==
  IF S = {} THEN 0
  ELSE LET x == CHOOSE y \in S : TRUE IN f[x] + SumOver(f, S \ {x})

(* The calls started so far, by all clients. *)
TotalCalls == SumOver(ncalls, Clients)

(* RpcRequestTransaction::Doit, lines 41-45: attach to the channel, clear  *)
(* the response and send the request.                                      *)
DoitSend(c, request) ==
  /\ cpc[c] = "idle"
  /\ TotalCalls < MaxCalls
  /\ bound' = [bound EXCEPT ![c] = TRUE]
  /\ response' = [response EXCEPT ![c] = <<>>]
  /\ LET message == CreateMessage(channel, c, Server, request)
     IN /\ net' = net \cup {message}
        /\ sent' = sent (+) SetToBag({message})
  /\ ncalls' = [ncalls EXCEPT ![c] = @ + 1]
  /\ requests' = [requests EXCEPT ![c] = <<request>>]
  /\ returned' = [returned EXCEPT ![c] = <<>>]
  /\ produced' = [produced EXCEPT ![c] = <<>>]
  /\ cpc' = [cpc EXCEPT ![c] = "lock"]
  /\ UNCHANGED <<rvars, registry, aborted, faults, handler, mutex, hm>>

(* Doit, line 46: mutex.Lock() *)
DoitLock(c) ==
  /\ cpc[c] = "lock"
  /\ mutex[c] = "free"
  /\ mutex' = [mutex EXCEPT ![c] = "caller"]
  /\ cpc' = [cpc EXCEPT ![c] = "check"]
  /\ UNCHANGED <<rvars, tvars, handler, response, hm, bound, ncalls, requests,
                 returned, produced>>

(* Doit, line 47: while (response == NULL) *)
DoitCheck(c) ==
  /\ cpc[c] = "check"
  /\ cpc' = [cpc EXCEPT ![c] = IF response[c] = <<>> THEN "dowait" ELSE "unlock"]
  /\ UNCHANGED <<rvars, tvars, handler, response, mutex, hm, bound, ncalls, requests,
                 returned, produced>>

(* Doit, line 48: cond.Wait(&mutex) releases the mutex and sleeps. *)
DoitCondWait(c) ==
  /\ cpc[c] = "dowait"
  /\ mutex' = [mutex EXCEPT ![c] = "free"]
  /\ cpc' = [cpc EXCEPT ![c] = "wait"]
  /\ UNCHANGED <<rvars, tvars, handler, response, hm, bound, ncalls, requests,
                 returned, produced>>

(* A condition variable may wake its waiter without a signal. *)
SpuriousWakeup(c) ==
  /\ cpc[c] = "wait"
  /\ cpc' = [cpc EXCEPT ![c] = "woken"]
  /\ UNCHANGED <<rvars, tvars, handler, response, mutex, hm, bound, ncalls, requests,
                 returned, produced>>

(* Doit, line 48: cond.Wait takes the mutex again before it returns. *)
DoitReacquire(c) ==
  /\ cpc[c] = "woken"
  /\ mutex[c] = "free"
  /\ mutex' = [mutex EXCEPT ![c] = "caller"]
  /\ cpc' = [cpc EXCEPT ![c] = "check"]
  /\ UNCHANGED <<rvars, tvars, handler, response, hm, bound, ncalls, requests,
                 returned, produced>>

(* Doit, line 50: mutex.Unlock() *)
DoitUnlock(c) ==
  /\ cpc[c] = "unlock"
  /\ mutex' = [mutex EXCEPT ![c] = "free"]
  /\ cpc' = [cpc EXCEPT ![c] = "return"]
  /\ UNCHANGED <<rvars, tvars, handler, response, hm, bound, ncalls, requests,
                 returned, produced>>

(* A result thawed from the request instead of the response. *)
ThawedRequest(c) == requests[c]

(* Rpc::Request, line 86: the thawed response; nothing when response_ is  *)
(* NULL.                                                                   *)
ThawedResponse(c) ==
  IF response[c] = <<>> THEN <<>> ELSE <<Thaw(response[c][1].data)>>

(* Doit, line 51, and Rpc::Request, lines 85-87: return the response. *)
RequestReturn(c) ==
  /\ cpc[c] = "return"
  /\ returned' = [returned EXCEPT ![c] = ThawedResponse(c)]
  /\ cpc' = [cpc EXCEPT ![c] = "idle"]
  /\ UNCHANGED <<rvars, tvars, handler, response, mutex, hm, bound, ncalls, requests,
                 produced>>

(* A handler that does not wait for the mutex. *)
MutexIgnored(c) == TRUE

(* RpcRequestTransaction::HandleMessage, line 56: mutex.Lock() can proceed *)
MutexAvailable(c) == mutex[c] = "free"

(* RpcRequestTransaction::HandleMessage, lines 55-56: Done(), mutex.Lock() *)
ClientHandleLock(c, m) ==
  /\ m \in net
  /\ m.to = c
  /\ m.channel = channel
  /\ bound[c]
  /\ hm[c] = <<>>
  /\ MutexAvailable(c)
  /\ bound' = [bound EXCEPT ![c] = FALSE]
  /\ mutex' = [mutex EXCEPT ![c] = "dispatch"]
  /\ hm' = [hm EXCEPT ![c] = <<m>>]
  /\ net' = net \ {m}
  /\ UNCHANGED <<rvars, registry, aborted, sent, faults, handler, cpc,
                 response, ncalls, requests, returned, produced>>

(* RpcRequestTransaction::HandleMessage, lines 57-59: store the response,  *)
(* cond.Signal(), mutex.Unlock()                                           *)
ClientHandleStore(c) ==
  /\ hm[c] # <<>>
  /\ response' = [response EXCEPT ![c] = hm[c]]
  /\ cpc' = [cpc EXCEPT ![c] = IF @ = "wait" THEN "woken" ELSE @]
  /\ mutex' = [mutex EXCEPT ![c] = "free"]
  /\ hm' = [hm EXCEPT ![c] = <<>>]
  /\ UNCHANGED <<rvars, tvars, handler, bound, ncalls, requests, returned, produced>>

(* The reduction variables while request/response is modelled. *)
NoReduction ==
  /\ topo = [parent |-> <<>>, kids |-> <<>>]
  /\ reductor = "noop"
  /\ contrib = <<>>
  /\ pc = <<>>
  /\ received = <<>>
  /\ n_received = <<>>
  /\ data = <<>>
  /\ cond = <<>>
  /\ freed = <<>>
  /\ arrival = <<>>
  /\ fin = <<>>

(* The server has registered its backend on the channel. *)
RpcInit ==
  /\ NoReduction
  /\ registry = [p \in Peers |-> IF p = Server THEN {channel} ELSE {}]
  /\ aborted = [p \in Peers |-> FALSE]
  /\ net = {}
  /\ sent = EmptyBag
  /\ faults = 0
  /\ handler \in Handlers
  /\ cpc = [c \in Clients |-> "idle"]
  /\ response = [c \in Clients |-> <<>>]
  /\ mutex = [c \in Clients |-> "free"]
  /\ hm = [c \in Clients |-> <<>>]
  /\ bound = [c \in Clients |-> FALSE]
  /\ ncalls = [c \in Clients |-> 0]
  /\ requests = [c \in Clients |-> <<>>]
  /\ returned = [c \in Clients |-> <<>>]
  /\ produced = [c \in Clients |-> <<>>]

RpcNext ==
  \/ \E c \in Clients : \E request \in Requests : DoitSend(c, request)
  \/ \E c \in Clients : DoitLock(c)
  \/ \E c \in Clients : DoitCheck(c)
  \/ \E c \in Clients : DoitCondWait(c)
  \/ \E c \in Clients : SpuriousWakeup(c)
  \/ \E c \in Clients : DoitReacquire(c)
  \/ \E c \in Clients : DoitUnlock(c)
  \/ \E c \in Clients : RequestReturn(c)
  \/ \E m \in net : ServerHandle(m)
  \/ \E c \in Clients : \E m \in net : ClientHandleLock(c, m)
  \/ \E c \in Clients : ClientHandleStore(c)

RpcSpec == RpcInit /\ [][RpcNext]_vars

(* A faulty transport: one more message is handed to the transaction of a *)
(* call in progress after that transaction has taken its response.  The   *)
(* handler is the same HandleMessage, lines 54-61, which has no guard.     *)
ClientRedeliver(c, v) ==
  /\ faults < MaxFaults
  /\ cpc[c] # "idle"
  /\ ~bound[c]
  /\ response[c] # <<>>
  /\ hm[c] = <<>>
  /\ MutexAvailable(c)
  /\ mutex' = [mutex EXCEPT ![c] = "dispatch"]
  /\ hm' = [hm EXCEPT ![c] = <<CreateMessage(channel, Server, c, v)>>]
  /\ faults' = faults + 1
  /\ UNCHANGED <<rvars, registry, aborted, net, sent, handler, cpc, response,
                 bound, ncalls, requests, returned, produced>>

RpcFaultNext ==
  \/ RpcNext
  \/ \E c \in Clients : \E v \in Responses : ClientRedeliver(c, v)

RpcFaultSpec == RpcInit /\ [][RpcFaultNext]_vars

(* Both threads run on, and the transport delivers; nothing makes a        *)
(* client start a call, and no wake-up without a signal is promised.       *)
CallerStep(c) ==
  \/ DoitLock(c)
  \/ DoitCheck(c)
  \/ DoitCondWait(c)
  \/ DoitReacquire(c)
  \/ DoitUnlock(c)
  \/ RequestReturn(c)

DispatchStep(c) ==
  \/ \E m \in net : ClientHandleLock(c, m)
  \/ ClientHandleStore(c)

RpcFairness ==
  /\ \A c \in Clients : WF_vars(CallerStep(c)) /\ WF_vars(DispatchStep(c))
  /\ WF_vars(\E m \in net : ServerHandle(m))

(* The handoff between the two threads does not look at the payload: one  *)
(* handler is enough.                                                      *)
RpcLiveInit == RpcInit /\ handler = [r \in Requests |-> r + 4]

RpcLiveSpec == RpcLiveInit /\ [][RpcNext]_vars /\ RpcFairness

(* The request/response variables while a reduction is modelled. *)
NoCalls ==
  /\ handler = <<>>
  /\ cpc = <<>>
  /\ response = <<>>
  /\ mutex = <<>>
  /\ hm = <<>>
  /\ bound = <<>>
  /\ ncalls = <<>>
  /\ requests = <<>>
  /\ returned = <<>>
  /\ produced = <<>>

Init ==
  /\ topo \in Topologies
  /\ reductor \in Reductors
  /\ contrib \in ContributionsFor(reductor, DOMAIN topo.kids)
  /\ pc = [n \in DOMAIN topo.kids |-> "idle"]
  /\ received = [n \in DOMAIN topo.kids |-> <<>>]
  /\ n_received = [n \in DOMAIN topo.kids |-> 0]
  /\ data = contrib
  /\ cond = [n \in DOMAIN topo.kids |-> FALSE]
  /\ freed = [n \in DOMAIN topo.kids |-> [i \in 0..(Len(topo.kids[n]) - 1) |-> 0]]
  /\ arrival = [n \in DOMAIN topo.kids |-> <<>>]
  /\ fin = [n \in DOMAIN topo.kids |-> 0]
  /\ registry = [n \in DOMAIN topo.kids |-> {}]
  /\ aborted = [n \in DOMAIN topo.kids |-> FALSE]
  /\ net = {}
  /\ sent = EmptyBag
  /\ faults = 0
  /\ NoCalls

Next ==
  \/ \E n \in Nodes : TransactionInit(n)
  \/ \E n \in Nodes : Register(n)
  \/ \E n \in Nodes : Wait(n)
  \/ \E n \in Nodes : \E m \in net : Deliver(n, m)

Spec == Init /\ [][Next]_vars

(* The caller thread runs on once it is inside Doit, and the transport     *)
(* delivers every message whose channel is registered.                     *)
Fairness ==
  /\ \A n \in 0..(MaxNodes - 1) : WF_vars(n \in Nodes /\ Register(n))
  /\ \A n \in 0..(MaxNodes - 1) : WF_vars(n \in Nodes /\ Wait(n))
  /\ \A n \in 0..(MaxNodes - 1) : WF_vars(n \in Nodes /\ \E m \in net : Deliver(n, m))

(* Whether the calls return does not depend on the payload: the barrier    *)
(* and one reductor with a payload are enough.                             *)
LiveInit == Init /\ reductor \in {"cat", "noop"}

LiveSpec == LiveInit /\ [][Next]_vars /\ Fairness

FaultNext ==
  \/ Next
  \/ \E n \in Nodes : \E p \in 0..Cardinality(Nodes) : Misdeliver(n, p)

(* The faults do not look at the payload: one reductor is enough. *)
FaultInit == Init /\ reductor = "cat"

FaultSpec == FaultInit /\ [][FaultNext]_vars

FineNext ==
  \/ \E n \in Nodes : TransactionInit(n)
  \/ \E n \in Nodes : Register(n)
  \/ \E n \in Nodes : Wait(n)
  \/ \E n \in Nodes : \E m \in net : FineDeliver(n, m)
  \/ \E n \in Nodes : FinalizeStep(n)

(* The order of the statements does not depend on the values combined. *)
FineInit == Init /\ reductor = "cat"

FineSpec == FineInit /\ [][FineNext]_vars

(* A reduction over all processes on channel_num while the clients call    *)
(* the service of process 0 on the other channel: the tree's root is the   *)
(* server, the other processes are the clients.  The tree is the chain    *)
(* 0 <- 1 <- 2 <- ..., so that every process but the last receives on      *)
(* both channels.  Both kinds of message carry integers: the reductor is   *)
(* the subtraction, the contributions are 10 at the root and 3 or 4        *)
(* elsewhere.                                                              *)
MixInit ==
  /\ topo \in {t \in TopologiesOf(MaxClients + 1) :
                 \A i \in 1..MaxClients : t.parent[i] = i - 1}
  /\ reductor = "sub"
  /\ contrib = [n \in DOMAIN topo.kids |->
                  IF n = 0 THEN 10 ELSE IF n % 2 = 1 THEN 3 ELSE 4]
  /\ pc = [n \in DOMAIN topo.kids |-> "idle"]
  /\ received = [n \in DOMAIN topo.kids |-> <<>>]
  /\ n_received = [n \in DOMAIN topo.kids |-> 0]
  /\ data = contrib
  /\ cond = [n \in DOMAIN topo.kids |-> FALSE]
  /\ freed = [n \in DOMAIN topo.kids |-> [i \in 0..(Len(topo.kids[n]) - 1) |-> 0]]
  /\ arrival = [n \in DOMAIN topo.kids |-> <<>>]
  /\ fin = [n \in DOMAIN topo.kids |-> 0]
  /\ registry = [p \in Peers |-> IF p = Server THEN {channel} ELSE {}]
  /\ aborted = [p \in Peers |-> FALSE]
  /\ net = {}
  /\ sent = EmptyBag
  /\ faults = 0
  /\ handler = [r \in Requests |-> r + 4]
  /\ cpc = [c \in Clients |-> "idle"]
  /\ response = [c \in Clients |-> <<>>]
  /\ mutex = [c \in Clients |-> "free"]
  /\ hm = [c \in Clients |-> <<>>]
  /\ bound = [c \in Clients |-> FALSE]
  /\ ncalls = [c \in Clients |-> 0]
  /\ requests = [c \in Clients |-> <<>>]
  /\ returned = [c \in Clients |-> <<>>]
  /\ produced = [c \in Clients |-> <<>>]

(* The request the clients send beside the reduction: routing does not     *)
(* look at the payload.                                                    *)
MixRequest == CHOOSE r \in Requests : \A q \in Requests : r <= q

(* The clients start one call fewer than MaxCalls beside the reduction. *)
MixNext ==
  \/ \E n \in Nodes : TransactionInit(n)
  \/ \E n \in Nodes : Register(n)
  \/ \E n \in Nodes : Wait(n)
  \/ \E n \in Nodes : \E m \in net : Deliver(n, m)
  \/ \E c \in Clients : DoitSend(c, MixRequest) /\ TotalCalls' < MaxCalls
  \/ \E c \in Clients : DoitLock(c)
  \/ \E c \in Clients : DoitCheck(c)
  \/ \E c \in Clients : DoitCondWait(c)
  \/ \E c \in Clients : SpuriousWakeup(c)
  \/ \E c \in Clients : DoitReacquire(c)
  \/ \E c \in Clients : DoitUnlock(c)
  \/ \E c \in Clients : RequestReturn(c)
  \/ \E m \in net : ServerHandle(m)
  \/ \E c \in Clients : \E m \in net : ClientHandleLock(c, m)
  \/ \E c \in Clients : ClientHandleStore(c)

MixSpec == MixInit /\ [][MixNext]_vars

----------------------------------------------------------------------------
(* Properties of the reduction *)

Entered(n) == pc[n] # "idle"

Returned(n) == pc[n] = "returned"

AllEntered == \A n \in Nodes : Entered(n)

AllReturned == \A n \in Nodes : Returned(n)

(* The value of n's subtree: n's contribution with the values of its       *)
(* children's subtrees combined into it in increasing child index order.   *)
RECURSIVE SubtreeValue(_)
RECURSIVE FoldKids(_, _, _)
FoldKids(n, acc, j) ==
  IF j > Len(topo.kids[n]) THEN acc
  ELSE FoldKids(n, Reduce(SubtreeValue(topo.kids[n][j]), acc), j + 1)

SubtreeValue(n) == FoldKids(n, contrib[n], 1)

IsExample ==
  /\ reductor = "sub"
  /\ topo.kids = [x \in 0..2 |-> IF x = 0 THEN <<1, 2>> ELSE <<>>]
  /\ contrib = [x \in 0..2 |-> CASE x = 0 -> 10 [] x = 1 -> 3 [] x = 2 -> 4]

(* C1: when a process's reduction has finished, its value is the           *)
(* combination of the contributions of its subtree, each child's subtree   *)
(* combined before the parent folds it in, children in increasing child    *)
(* index; at the root that is the combination of all N contributions, and  *)
(* with combine(incoming, acc) = incoming - acc, R = 10 and children       *)
(* [A = 3, B = 4] the root ends with 11.                                   *)
C1_ReduceValue ==
  /\ \A n \in Nodes : Returned(n) => data[n] = SubtreeValue(n)
  /\ (IsExample /\ Returned(0)) => data[0] = 11

C1_Witness == IsExample /\ AllReturned /\ data[0] = 11

(* C2: no participant's barrier call returns before every participant of   *)
(* the tree has entered its own barrier call.                              *)
C2_BarrierSafety ==
  reductor = "noop" =>
    \A n \in Nodes : Returned(n) => \A m \in Nodes : Entered(m)

(* C3: once every participant has entered its reduce (or barrier) call,    *)
(* every participant's call eventually returns.                            *)
C3_Liveness == AllEntered ~> AllReturned

C3_Witness ==
  /\ Cardinality(Nodes) = 3
  /\ AllReturned
  /\ \E n \in Nodes : n_children(n) = 2 /\ arrival[n] = <<1, 0>>

(* C4: a process's reduce call does not return before every process of    *)
(* its subtree has entered the reduction and has its contribution in the   *)
(* process's accumulator.                                                  *)
C4_SubtreeComplete ==
  \A n \in Nodes :
    Returned(n) =>
      \A d \in Subtree(n) :
        /\ Entered(d)
        /\ reductor = "cat" => d \in Range(data[n])

C4_Witness ==
  /\ reductor = "cat"
  /\ \E n \in Nodes : ~is_root(n) /\ n_children(n) > 0 /\ Returned(n) /\ ~Returned(0)

(* The messages a faulty transport may hand to process n. *)
StrayMessages(n) ==
  {CreateMessage(channel_num, p, n, contrib[n]) : p \in 0..Cardinality(Nodes)}

(* The message does not come from a child of n, or comes from a child     *)
(* whose message n already holds.                                          *)
Unexpected(n, m) ==
  \/ \A j \in 1..Len(topo.kids[n]) : topo.kids[n][j] # m.from
  \/ \E j \in 1..Len(topo.kids[n]) :
        topo.kids[n][j] = m.from /\ received[n][j - 1] # <<>>

(* C7: a message from a process that is no child, or a second message from *)
(* a child, aborts the process; the accumulator, the slots and the count   *)
(* stay as they were and nothing is sent.                                  *)
C7_FatalOnUnexpected ==
  [][\A n \in Nodes : \A m \in net \cup StrayMessages(n) :
        (/\ \/ Deliver(n, m)
            \/ \E p \in 0..Cardinality(Nodes) :
                  m = CreateMessage(channel_num, p, n, contrib[n]) /\ Misdeliver(n, p)
         /\ Unexpected(n, m))
        => /\ aborted'[n]
           /\ UNCHANGED <<data, received, n_received, sent, cond, registry>>
           /\ net' \subseteq net]_vars

C7_Witness ==
  \E n \in Nodes :
    /\ aborted[n]
    /\ n_children(n) = 2
    /\ n_received[n] = 1
    /\ data[n] = contrib[n]

(* C8: on a tree of one process the reduction is complete as soon as it    *)
(* has started: the caller is not made to wait, no message is sent or      *)
(* awaited and the value is the contribution.                              *)
C8_SingleNode ==
  Cardinality(Nodes) = 1 =>
    (Entered(0) =>
       /\ cond[0]
       /\ data[0] = contrib[0]
       /\ n_received[0] = 0
       /\ net = {}
       /\ BagCardinality(sent) = 0)

C8_Witness == Cardinality(Nodes) = 1 /\ Returned(0) /\ reductor = "sub"

(* The children's stored contributions folded into acc by child index. *)
RECURSIVE IndexOrderFold(_, _, _)
IndexOrderFold(n, acc, i) ==
  IF i >= Len(topo.kids[n]) THEN acc
  ELSE IndexOrderFold(n, Reduce(received[n][i][1].data.frozen, acc), i + 1)

(* C9: whatever the order of arrival, a process that has finished holds    *)
(* its contribution with the children's contributions combined into it in  *)
(* increasing child index order.                                           *)
C9_ArrivalOrder ==
  \A n \in Nodes : cond[n] => data[n] = IndexOrderFold(n, contrib[n], 0)

C9_Witness ==
  \E n \in Nodes :
    /\ cond[n]
    /\ reductor = "cat"
    /\ arrival[n] = <<1, 0>>
    /\ data[n] = <<n>> \o received[n][0][1].data.frozen \o received[n][1][1].data.frozen

----------------------------------------------------------------------------
(* Properties of the request/response exchange *)

CallReturned(c) == cpc[c] = "idle" /\ ncalls[c] > 0

(* C5: what a call returns is the response the handler produced for the    *)
(* request of that call.                                                   *)
C5_CallReturnsHandlerResponse ==
  \A c \in Clients :
    CallReturned(c) =>
      /\ produced[c] # <<>>
      /\ produced[c][1].request = requests[c][1]
      /\ returned[c] = <<produced[c][1].response>>

C5_Witness ==
  /\ CallReturned(1) /\ CallReturned(2)
  /\ requests[1] = <<1>> /\ returned[1] = <<5>>
  /\ requests[2] = <<2>> /\ returned[2] = <<6>>

RECURSIVE BagCount(_, _)
BagCount(B, S) ==
  IF S = {} THEN 0
  ELSE LET x == CHOOSE y \in S : TRUE IN CopiesIn(x, B) + BagCount(B, S \ {x})

(* How many messages from process a to process b were handed to Send. *)
SentFromTo(a, b) ==
  BagCount(sent, {m \in BagToSet(sent) : m.from = a /\ m.to = b})

InFlightFromTo(a, b) == Cardinality({m \in net : m.from = a /\ m.to = b})

(* C6: the dispatcher has sent one reply to a client for each of the       *)
(* client's requests that reached it, no message to anyone else, and its   *)
(* channel stays registered.                                               *)
C6_OneReplyPerRequest ==
  /\ \A c \in Clients :
       SentFromTo(Server, c) = SentFromTo(c, Server) - InFlightFromTo(c, Server)
  /\ \A m \in BagToSet(sent) : m.from = Server => m.to \in Clients
  /\ channel \in registry[Server]

C6_Witness ==
  /\ SentFromTo(Server, 2) = MaxCalls
  /\ InFlightFromTo(Server, 2) = 0
  /\ CallReturned(2)

(* C10: a call leaves its wait loop only with a response recorded, it does *)
(* not return a null response, and once the dispatch thread has recorded   *)
(* the response the call returns.                                          *)
C10_NoLostWakeup ==
  /\ [](\A c \in Clients : cpc[c] \in {"unlock", "return"} => response[c] # <<>>)
  /\ [](\A c \in Clients : CallReturned(c) => returned[c] # <<>>)
  /\ \A c \in Clients : (response[c] # <<>>) ~> CallReturned(c)

C10_Witness ==
  \E c \in Clients :
    /\ cpc[c] = "woken"
    /\ response[c] # <<>>
    /\ hm[c] = <<>>


----------------------------------------------------------------------------
(* Registry, upward messages, slots and frees of the reduction *)

(* C12: when a process's reduce call has returned, its channel number is   *)
(* no longer in its registry; this for every process, leaves and the root  *)
(* included.                                                               *)
C12_UnregisteredAfterReturn ==
  \A n \in Nodes : Returned(n) => channel_num \notin registry[n]

(* How many messages process n handed to Send. *)
SentFrom(n) == BagCount(sent, {m \in BagToSet(sent) : m.from = n})

(* C13: a process that is not the root has sent exactly one message once   *)
(* it has finalized and none before; the message is addressed to its       *)
(* parent and carries the combined value of its subtree; the root sends no *)
(* message.                                                                *)
C13_OneUpwardMessage ==
  \A n \in Nodes :
    /\ SentFrom(n) = IF cond[n] /\ n # 0 THEN 1 ELSE 0
    /\ \A m \in BagToSet(sent) :
          m.from = n => /\ n # 0
                        /\ m.to = topo.parent[n]
                        /\ m.channel = channel_num
                        /\ m.data = Freeze(SubtreeValue(n))

C13_Witness ==
  /\ Cardinality(Nodes) = 3
  /\ AllReturned
  /\ \E n \in Nodes : n # 0 /\ Len(topo.kids[n]) = 1 /\ SentFrom(n) = 1
  /\ SentFrom(0) = 0

(* How often x occurs in the sequence s. *)
CountIn(s, x) == Cardinality({j \in 1..Len(s) : s[j] = x})

(* A step shows an effect of Finalize at n. *)
FinalizeEffect(n) ==
  \/ data'[n] # data[n]
  \/ freed'[n] # freed[n]
  \/ cond'[n] # cond[n]
  \/ \E m \in BagToSet(sent') : m.from = n /\ CopiesIn(m, sent') # CopiesIn(m, sent)

(* C14: Finalize runs at most once per process and only with every child   *)
(* slot filled, and it combines each child's contribution exactly once:    *)
(* with concatenation, the value of a finalized process holds each process *)
(* of its subtree once, and before that only its own contribution.         *)
C14_CombinedOnce ==
  /\ [](reductor = "cat" =>
          \A n \in Nodes : \A d \in Nodes :
            CountIn(data[n], d) =
              IF d = n \/ (cond[n] /\ d \in Subtree(n)) THEN 1 ELSE 0)
  /\ [][\A n \in Nodes :
          FinalizeEffect(n) =>
            /\ ~cond[n] /\ cond'[n]
            /\ n_received'[n] = Len(topo.kids[n])
            /\ \A i \in DOMAIN received'[n] : received'[n][i] # <<>>]_vars

C14_Witness ==
  /\ reductor = "cat"
  /\ \E n \in Nodes : Len(topo.kids[n]) = 2 /\ cond[n] /\ Len(data[n]) = 3

(* C18: every stored child message is freed exactly once, not before its   *)
(* contribution is part of the process's value, and none is left unfreed   *)
(* once the process has finalized.                                         *)
C18_FreedOnce ==
  \A n \in Nodes : \A i \in DOMAIN freed[n] :
    /\ freed[n][i] <= 1
    /\ freed[n][i] = 1 => (received[n][i] # <<>> /\ data[n] = SubtreeValue(n))
    /\ cond[n] => freed[n][i] = 1

C18_Witness ==
  \E n \in Nodes :
    /\ Len(topo.kids[n]) = 2
    /\ cond[n]
    /\ \A i \in DOMAIN freed[n] : freed[n][i] = 1

(* The slots of n that hold a message. *)
Filled(n) == {i \in DOMAIN received[n] : received[n][i] # <<>>}

(* C19: in a process that has not aborted the count of received messages   *)
(* is the number of filled slots and lies between 0 and the number of      *)
(* children; an accepted message raises the count by one and fills the     *)
(* slot of the child it came from, and no other slot changes.              *)
C19_CountMatchesSlots ==
  /\ [](\A n \in Nodes :
          ~aborted[n] => /\ n_received[n] = Cardinality(Filled(n))
                         /\ n_received[n] \in 0..Len(topo.kids[n]))
  /\ [][\A n \in Nodes :
          (pc[n] # "idle" /\ ~aborted'[n]
             /\ (n_received'[n] # n_received[n] \/ received'[n] # received[n]))
          => /\ n_received'[n] = n_received[n] + 1
             /\ \E i \in DOMAIN received[n] :
                   /\ received[n][i] = <<>>
                   /\ received'[n][i] # <<>>
                   /\ received'[n][i][1].from = topo.kids[n][i + 1]
                   /\ \A j \in DOMAIN received[n] \ {i} :
                         received'[n][j] = received[n][j]]_vars

C19_Witness ==
  \E n \in Nodes :
    /\ ~aborted[n]
    /\ faults = 1
    /\ n_received[n] = 2
    /\ Cardinality(Filled(n)) = 2

(* transaction_.Init has run at n: the slots exist. *)
Initialised(n) ==
  pc[n] # "idle" /\ DOMAIN received[n] = 0..(Len(topo.kids[n]) - 1)

(* C20: a channel is in the registry only after its transaction's Init has *)
(* completed, and a message is handed only to an initialised transaction.  *)
C20_RegisteredAfterInit ==
  /\ [](\A n \in Nodes : channel_num \in registry[n] => Initialised(n))
  /\ [][\A n \in Nodes :
          (\E m \in net \ net' : m.to = n) => (Initialised(n) /\ Initialised(n)')]_vars

C20_Witness ==
  \E n \in Nodes : \E m \in net :
    /\ m.to = n
    /\ pc[n] = "idle"
    /\ channel_num \notin registry[n]



----------------------------------------------------------------------------
(* The response of a call in progress *)

(* C11: a blocking call consumes at most one response: once a response is  *)
(* recorded for the call in progress, no message handed to its transaction *)
(* later replaces it, and the call returns the response that the           *)
(* dispatcher produced for its request.                                    *)
C11_ResponseKept ==
  /\ [][\A c \in Clients :
          (response[c] # <<>> /\ cpc[c] # "idle") => response'[c] = response[c]]_vars
  /\ [](\A c \in Clients :
          CallReturned(c) => returned[c] = <<produced[c][1].response>>)



----------------------------------------------------------------------------
(* rpc::GetRemoteData against a DataGetterBackend *)

(* The registered backend is a data getter: one response for every request. *)
IsDataGetter == \A r1 \in Requests : \A r2 \in Requests : handler[r1] = handler[r2]

(* The snapshot the data getter holds. *)
Snapshot == handler[CHOOSE r \in Requests : TRUE]

(* C15: a fetch from a data getter returns the snapshot the getter holds,  *)
(* no fetch changes the snapshot, and every fetch, whoever makes it and    *)
(* however often, returns the same value.                                  *)
C15_FetchReturnsSnapshot ==
  /\ [](IsDataGetter =>
          \A c \in Clients : CallReturned(c) => returned[c] = <<Snapshot>>)
  /\ [](IsDataGetter =>
          \A c1 \in Clients : \A c2 \in Clients :
            (CallReturned(c1) /\ CallReturned(c2)) => returned[c1] = returned[c2])
  /\ [][handler' = handler]_vars

C15_Witness ==
  /\ IsDataGetter
  /\ Snapshot = 6
  /\ \E c \in Clients : ncalls[c] = 2 /\ CallReturned(c) /\ returned[c] = <<6>>



----------------------------------------------------------------------------
(* A reduction and client calls side by side on two channels *)

(* The messages a step took from the network or put into it. *)
Moved == (net \ net') \cup (net' \ net)

(* C16: a reduction on one channel and client calls on another do not      *)
(* disturb each other: every result is the one the operation gives alone   *)
(* (the subtree value, the handler's response), no process aborts, and a   *)
(* step that changes the reduction's state moves only messages of the      *)
(* reduction's channel and leaves the calls' state alone, and the other    *)
(* way round; the service's registration is never touched.                 *)
C16_ChannelsIndependent ==
  /\ [](\A n \in Nodes :
          ~aborted[n] /\ (Returned(n) => data[n] = SubtreeValue(n)))
  /\ [](\A c \in Clients :
          CallReturned(c) => returned[c] = <<handler[requests[c][1]]>>)
  /\ [][/\ rvars' # rvars =>
             (cvars' = cvars /\ \A m \in Moved : m.channel = channel_num)
        /\ cvars' # cvars =>
             (rvars' = rvars /\ registry' = registry
                /\ \A m \in Moved : m.channel = channel)
        /\ \A p \in Peers : (channel \in registry'[p]) = (channel \in registry[p])]_vars

C16_Witness ==
  /\ \E m1 \in net : \E m2 \in net :
        /\ m1.to = Server /\ m1.channel = channel_num
        /\ m2.to = Server /\ m2.channel = channel
  /\ \E c \in Clients : pc[c] = "wait" /\ cpc[c] = "wait"



----------------------------------------------------------------------------
(* The order of the statements of Finalize *)

(* The messages process n has to have sent once it has finalized. *)
UpwardDue(n) == IF n = 0 THEN 0 ELSE 1

(* C17: the completion signal is the last statement of Finalize.  When     *)
(* cond_ becomes done the upward message is sent and the channel is out of *)
(* the registry; when the waiting caller is released the dispatch thread   *)
(* has left Finalize and the message is sent; and once cond_ is done the   *)
(* dispatch thread changes nothing of the process's reduction any more     *)
(* (the registry changes only by the caller's own rpc::Register).          *)
C17_SignalLast ==
  [][\A n \in Nodes :
       /\ (~cond[n] /\ cond'[n]) =>
             /\ channel_num \notin registry'[n]
             /\ SentFrom(n)' = UpwardDue(n)
       /\ (pc[n] = "wait" /\ pc'[n] = "returned") =>
             /\ fin[n] = 0
             /\ SentFrom(n) = UpwardDue(n)
       /\ cond[n] =>
             /\ fin'[n] = 0
             /\ received'[n] = received[n]
             /\ n_received'[n] = n_received[n]
             /\ data'[n] = data[n]
             /\ freed'[n] = freed[n]
             /\ cond'[n]
             /\ SentFrom(n)' = SentFrom(n)
             /\ (registry'[n] = registry[n] \/ pc[n] = "register")]_vars

C17_Witness ==
  \E n \in Nodes :
    /\ Len(topo.kids[n]) = 1
    /\ n # 0
    /\ Returned(n)
    /\ fin[n] = 0
    /\ channel_num \notin registry[n]
    /\ \E m \in net : m.from = n


============================================================================
